---------------------------- MODULE Spec2Model ----------------------------
(***************************************************************************)
(* Model of the Kneser-Ney smoothing repository.                           *)
(*                                                                         *)
(*   src/KN_smoothing.py  class KneserNeySmoothing and the module-level    *)
(*                        demonstration (lines 195-213)                    *)
(*   src/ejemplo.py       class KneserNeyLM                                *)
(*                                                                         *)
(* Conventions.                                                            *)
(*   - A Python str is a sequence of chunks; a chunk is either a           *)
(*     whitespace character or a piece of non-whitespace text.  A token    *)
(*     (the result of str.split) is a non-empty sequence of non-whitespace *)
(*     chunks, an n-gram a tuple of tokens.                                *)
(*   - A Counter is a function whose DOMAIN is its key set; looking up a   *)
(*     missing key gives 0 and inserts nothing (Counter.__missing__).      *)
(*     A defaultdict inserts the default on every lookup of a missing key. *)
(*   - Python's floats are modelled by exact rationals [num, den] in       *)
(*     lowest terms with den > 0.  Rounding of IEEE-754 doubles is not     *)
(*     modelled: equalities below are equalities of the exact values.      *)
(*   - A call's outcome is [exc, val]: exc = "" for a normal return of val,*)
(*     otherwise the name of the exception that ended the call.            *)
(***************************************************************************)
EXTENDS Integers, Sequences, FiniteSets, TLC

VARIABLES
    pc,        \* "new": constructor arguments chosen, __init__ not yet run;
               \* "built": the instance exists; "returned": a query has just returned;
               \* "off": the program does not use KneserNeySmoothing
    args,      \* the arguments of KneserNeySmoothing(corpus, n, descuento)
    self,      \* the KneserNeySmoothing instance (its attributes)
    call,      \* the last query made on the instance
    result,    \* what that query returned or raised
    lmPc,      \* "idle": the KneserNeyLM instance exists, no call is pending;
               \* "returned": get_ngram_prob has just returned;
               \* "off": the program does not use KneserNeyLM
    lmTrained, \* whether train() has run
    lm,        \* the KneserNeyLM instance (its attributes)
    lmCall,    \* the last get_ngram_prob argument
    lmResult   \* what that call returned or raised

vars == <<pc, args, self, call, result, lmPc, lmTrained, lm, lmCall, lmResult>>

---------------------------------------------------------------------------
(* Bounds of the model *)

MaxSentences == 2

MaxLen == 3

MaxN == 3

LMMaxLen == 2

LMMaxN == 2

---------------------------------------------------------------------------
(* Exact rational arithmetic standing for Python's float arithmetic *)

Abs(x) == IF x < 0 THEN 0 - x ELSE x

RECURSIVE GCD(_, _)
GCD(a, b) == IF b = 0 THEN a ELSE GCD(b, a % b)

\* the rational num/den (den > 0) in lowest terms
Frac(num, den) ==
    LET g == GCD(Abs(num), den)
    IN  [num |-> num \div g, den |-> den \div g]

Int2Float(k) == [num |-> k, den |-> 1]

RAdd(x, y) == Frac(x.num * y.den + y.num * x.den, x.den * y.den)

RSub(x, y) == Frac(x.num * y.den - y.num * x.den, x.den * y.den)

RMul(x, y) == Frac(x.num * y.num, x.den * y.den)

\* x / k for an integer k > 0
RDivInt(x, k) == Frac(x.num, x.den * k)

RLess(x, y) == x.num * y.den < y.num * x.den

RLeq(x, y) == x.num * y.den <= y.num * x.den

\* Python's max(x, 0): x when x > 0, else 0
RMax0(x) == IF RLess(Int2Float(0), x) THEN x ELSE Int2Float(0)

Returns(v) == [exc |-> "", val |-> v]

Raises(e) == [exc |-> e, val |-> Int2Float(0)]

\* Python's a / b on integers: true division, ZeroDivisionError when b = 0
TrueDiv(a, b) ==
    IF b = 0 THEN Raises("ZeroDivisionError")
    ELSE IF b > 0 THEN Returns(Frac(a, b))
    ELSE Returns(Frac(0 - a, 0 - b))

---------------------------------------------------------------------------
(* Strings, str.split, zip *)

Whitespace == {" ", "\t", "\n"}

\* str.split() with no separator: the maximal runs of non-whitespace chunks
RECURSIVE SplitFrom(_, _, _, _)
SplitFrom(s, i, cur, acc) ==
    IF i > Len(s)
    THEN IF cur = <<>> THEN acc ELSE Append(acc, cur)
    ELSE IF s[i] \in Whitespace
         THEN SplitFrom(s, i + 1, <<>>, IF cur = <<>> THEN acc ELSE Append(acc, cur))
         ELSE SplitFrom(s, i + 1, Append(cur, s[i]), acc)

split(s) == SplitFrom(s, 1, <<>>, <<>>)

\* tokens[i:] for a 0-based i >= 0
SliceFrom(tokens, i) == SubSeq(tokens, i + 1, Len(tokens))

\* ngram[1:] and ngram[:-1] of a tuple
DropFirst(t) == SubSeq(t, 2, Len(t))

DropLast(t) == SubSeq(t, 1, Len(t) - 1)

MinOf(S) == CHOOSE m \in S : \A x \in S : m <= x

\* zip(*lists): no tuples for no lists, else one tuple per index all lists have
Zip(lists) ==
    IF Len(lists) = 0 THEN <<>>
    ELSE LET m == MinOf({Len(lists[i]) : i \in 1..Len(lists)})
         IN  [j \in 1..m |-> [i \in 1..Len(lists) |-> lists[i][j]]]

\* zip(*[tokens[i:] for i in range(n)]); range(n) is empty for n <= 0
NgramsOf(tokens, n) ==
    Zip([i \in 1..(IF n > 0 THEN n ELSE 0) |-> SliceFrom(tokens, i - 1)])

---------------------------------------------------------------------------
(* Counter and defaultdict(Counter) *)

EmptyCounter == <<>>

\* counter[key] as a read
CounterGet(counter, key) == IF key \in DOMAIN counter THEN counter[key] ELSE 0

\* counter[key] += k
CounterAdd(counter, key, k) ==
    [x \in DOMAIN counter \cup {key} |-> CounterGet(counter, x) + IF x = key THEN k ELSE 0]

\* Counter.update(iterable): one increment per element
RECURSIVE CounterUpdate(_, _)
CounterUpdate(counter, tokens) ==
    IF tokens = <<>> THEN counter
    ELSE CounterUpdate(CounterAdd(counter, Head(tokens), 1), Tail(tokens))

\* d[key] on a defaultdict(Counter): a missing key is inserted with Counter()
DefaultDictTouch(d, key) ==
    IF key \in DOMAIN d THEN d
    ELSE [x \in DOMAIN d \cup {key} |-> IF x = key THEN EmptyCounter ELSE d[x]]

---------------------------------------------------------------------------
(* class KneserNeySmoothing: construction *)

\* the attributes set by __init__ before the three counting passes
NewInstance(n, descuento) ==
    [n                   |-> n,
     descuento           |-> descuento,
     unigramCounts       |-> EmptyCounter,
     ngramCounts         |-> <<>>,
     cuentasContinuacion |-> EmptyCounter,
     cuentasContexto     |-> EmptyCounter,
     totalNgrams         |-> 0,
     totalUnigrams       |-> 0]

\* the inner loop of _calcularFrecuencias over the n-grams of one sentence
RECURSIVE CountNgrams(_, _)
CountNgrams(obj, ngrams) ==
    IF ngrams = <<>> THEN obj
    ELSE LET ngram == Head(ngrams)
             d     == DefaultDictTouch(obj.ngramCounts, Len(ngram))
         IN  CountNgrams(
                 [obj EXCEPT !.ngramCounts =
                                 [d EXCEPT ![Len(ngram)] = CounterAdd(@, ngram, 1)],
                             !.totalNgrams = @ + 1],
                 Tail(ngrams))

\* the body of the loop of _calcularFrecuencias for one sentence
CountSentence(obj, oracion) ==
    LET tokens == split(oracion)
    IN  CountNgrams(
            [obj EXCEPT !.totalUnigrams = @ + Len(tokens),
                        !.unigramCounts = CounterUpdate(@, tokens)],
            NgramsOf(tokens, obj.n))

RECURSIVE _calcularFrecuencias(_, _)
_calcularFrecuencias(obj, corpus) ==
    IF corpus = <<>> THEN obj
    ELSE _calcularFrecuencias(CountSentence(obj, Head(corpus)), Tail(corpus))

\* the loop of _calcularCuentasContinuacion: cuentasContinuacion[ngram[1:]] += 1
RECURSIVE CountSuffixes(_, _)
CountSuffixes(counter, todo) ==
    IF todo = {} THEN counter
    ELSE LET ngram == CHOOSE x \in todo : TRUE
         IN  CountSuffixes(CounterAdd(counter, DropFirst(ngram), 1), todo \ {ngram})

\* the loop of _calcularCuentasContexto: cuentasContexto[ngram[:-1]] += 1
RECURSIVE CountPrefixes(_, _)
CountPrefixes(counter, todo) ==
    IF todo = {} THEN counter
    ELSE LET ngram == CHOOSE x \in todo : TRUE
         IN  CountPrefixes(CounterAdd(counter, DropLast(ngram), 1), todo \ {ngram})

\* a variant of CountSuffixes that adds each n-gram's occurrence count
RECURSIVE CountSuffixOccurrences(_, _)
CountSuffixOccurrences(counter, counts) ==
    IF DOMAIN counts = {} THEN counter
    ELSE LET ngram == CHOOSE x \in DOMAIN counts : TRUE
         IN  CountSuffixOccurrences(
                 CounterAdd(counter, DropFirst(ngram), counts[ngram]),
                 [x \in DOMAIN counts \ {ngram} |-> counts[x]])

\* a variant of _calcularCuentasContinuacion counting occurrences, not types
_calcularCuentasContinuacion_PerOccurrence(obj) ==
    LET d == DefaultDictTouch(obj.ngramCounts, obj.n)
    IN  [obj EXCEPT !.ngramCounts = d,
                    !.cuentasContinuacion = CountSuffixOccurrences(@, d[obj.n])]

_calcularCuentasContinuacion(obj) ==
    LET d == DefaultDictTouch(obj.ngramCounts, obj.n)
    IN  [obj EXCEPT !.ngramCounts = d,
                    !.cuentasContinuacion = CountSuffixes(@, DOMAIN d[obj.n])]

_calcularCuentasContexto(obj) ==
    LET d == DefaultDictTouch(obj.ngramCounts, obj.n)
    IN  [obj EXCEPT !.ngramCounts = d,
                    !.cuentasContexto = CountPrefixes(@, DOMAIN d[obj.n])]

\* KneserNeySmoothing.__init__: no argument is validated, nothing is raised
KneserNeySmoothing(corpus, n, descuento) ==
    _calcularCuentasContexto(
        _calcularCuentasContinuacion(
            _calcularFrecuencias(NewInstance(n, descuento), corpus)))

---------------------------------------------------------------------------
(* class KneserNeySmoothing: queries.  A query returns [self, exc, val]: the *)
(* instance as the call leaves it, and the call's outcome.                 *)

Outcome(obj, r) == [self |-> obj, exc |-> r.exc, val |-> r.val]

_probabilidadContinuacion(obj, word) ==
    TrueDiv(CounterGet(obj.cuentasContinuacion, <<word>>), obj.totalNgrams)

\* a variant of Interpolate whose backoff term is not divided by prefixCount
Interpolate_BackoffUndivided(ngramCount, descuento, prefixCount, lowerOrderProb) ==
    RAdd(RDivInt(RMax0(RSub(Int2Float(ngramCount), descuento)), prefixCount),
         RMul(descuento, lowerOrderProb))

\* line 148: max(ngramCount - D, 0) / prefixCount + D * lowerOrderProb / prefixCount
Interpolate(ngramCount, descuento, prefixCount, lowerOrderProb) ==
    RAdd(RDivInt(RMax0(RSub(Int2Float(ngramCount), descuento)), prefixCount),
         RDivInt(RMul(descuento, lowerOrderProb), prefixCount))

\* a variant of LookupNgramCounts that looks up the order below the n-gram's
LookupNgramCounts_OrderBelow(obj, ngram) ==
    [obj EXCEPT !.ngramCounts = DefaultDictTouch(@, Len(ngram) - 1)]

\* line 142: self.ngramCounts[len(ngram)], a lookup in a defaultdict
LookupNgramCounts(obj, ngram) ==
    [obj EXCEPT !.ngramCounts = DefaultDictTouch(@, Len(ngram))]

RECURSIVE _probabilidadCondicional(_, _)
_probabilidadCondicional(obj, ngram) ==
    IF Len(ngram) = 0 THEN Outcome(obj, Raises("IndexError"))
    ELSE IF Len(ngram) = 1
    THEN Outcome(obj, TrueDiv(CounterGet(obj.unigramCounts, ngram[1]), obj.totalUnigrams))
    ELSE LET prefix      == DropLast(ngram)
             word        == ngram[Len(ngram)]
             prefixCount == CounterGet(obj.cuentasContexto, prefix)
         IN  IF prefixCount = 0
             THEN Outcome(obj, _probabilidadContinuacion(obj, word))
             ELSE LET obj1       == LookupNgramCounts(obj, ngram)
                      ngramCount == CounterGet(obj1.ngramCounts[Len(ngram)], ngram)
                      lower      == _probabilidadCondicional(obj1, DropFirst(ngram))
                  IN  IF lower.exc # "" THEN lower
                      ELSE Outcome(lower.self,
                                   Returns(Interpolate(ngramCount, obj.descuento,
                                                       prefixCount, lower.val)))

obtenerProbabilidad(obj, ngram) == _probabilidadCondicional(obj, ngram)

\* a variant of MultiplyNgrams that assigns (prob = ...) instead of multiplying
RECURSIVE MultiplyNgrams_Assign(_, _, _)
MultiplyNgrams_Assign(obj, ngrams, prob) ==
    IF ngrams = <<>> THEN Outcome(obj, Returns(prob))
    ELSE LET r == obtenerProbabilidad(obj, Head(ngrams))
         IN  IF r.exc # "" THEN r
             ELSE MultiplyNgrams_Assign(r.self, Tail(ngrams), r.val)

\* the loop of generarProbabilidadOracion: prob *= obtenerProbabilidad(ngram)
RECURSIVE MultiplyNgrams(_, _, _)
MultiplyNgrams(obj, ngrams, prob) ==
    IF ngrams = <<>> THEN Outcome(obj, Returns(prob))
    ELSE LET r == obtenerProbabilidad(obj, Head(ngrams))
         IN  IF r.exc # "" THEN r
             ELSE MultiplyNgrams(r.self, Tail(ngrams), RMul(prob, r.val))

\* prob = 1.0
ProbSeed == Int2Float(1)

generarProbabilidadOracion(obj, oracion) ==
    MultiplyNgrams(obj, NgramsOf(split(oracion), obj.n), ProbSeed)

---------------------------------------------------------------------------
(* class KneserNeyLM (src/ejemplo.py).  A word is a str; a sentence is a    *)
(* list of words; ngram_counts is a defaultdict(Counter) keyed by context, *)
(* context_counts a defaultdict(int), vocab a set.                         *)

BOS == <<"<s>">>

EOS == <<"</s>">>

\* [x] * k: k copies of x, none for k <= 0
Repeat(x, k) == [i \in 1..(IF k > 0 THEN k ELSE 0) |-> x]

\* KneserNeyLM.__init__
KneserNeyLM(n, discount) ==
    [n              |-> n,
     discount       |-> discount,
     ngram_counts   |-> <<>>,
     context_counts |-> <<>>,
     vocab          |-> {}]

\* the body of the inner loop of train for the n-gram starting at 0-based i
TrainNgram(obj, tokens, i) ==
    LET ngram   == SubSeq(tokens, i + 1, i + obj.n)
        context == DropLast(ngram)
        word    == ngram[Len(ngram)]
        d       == DefaultDictTouch(obj.ngram_counts, context)
    IN  [obj EXCEPT !.ngram_counts   = [d EXCEPT ![context] = CounterAdd(@, word, 1)],
                    !.context_counts = CounterAdd(@, context, 1),
                    !.vocab          = @ \cup {word}]

\* for i in range(len(tokens) - self.n + 1), from i on
RECURSIVE TrainSentenceFrom(_, _, _)
TrainSentenceFrom(obj, tokens, i) ==
    IF i >= Len(tokens) - obj.n + 1 THEN obj
    ELSE TrainSentenceFrom(TrainNgram(obj, tokens, i), tokens, i + 1)

RECURSIVE train(_, _)
train(obj, corpus) ==
    IF corpus = <<>> THEN obj
    ELSE LET tokens == Repeat(BOS, obj.n - 1) \o Head(corpus) \o <<EOS>>
         IN  train(TrainSentenceFrom(obj, tokens, 0), Tail(corpus))

\* 1 / len(self.vocab)
UniformProb(obj) == TrueDiv(1, Cardinality(obj.vocab))

get_context_prob(obj, context, word) ==
    IF context \in DOMAIN obj.context_counts
    THEN TrueDiv(CounterGet(obj.ngram_counts[context], word), obj.context_counts[context])
    ELSE UniformProb(obj)

\* a variant of AddBackoff without the factor len(ngram_counts[context])
AddBackoff_NoTypeCount(prob, discount, nTypes, contextCount, backoff) ==
    RAdd(prob, RMul(RDivInt(discount, contextCount), backoff))

\* line 56: prob + discount * len(ngram_counts[context]) / context_counts[context] * backoff
AddBackoff(prob, discount, nTypes, contextCount, backoff) ==
    RAdd(prob, RMul(RDivInt(RMul(discount, Int2Float(nTypes)), contextCount), backoff))

\* lines 48-53: the discounted estimate of a seen n-gram, 0 for an unseen one
DiscountedProb(count, discount, contextCount) ==
    IF count > 0
    THEN RDivInt(RSub(Int2Float(count), discount), contextCount)
    ELSE Int2Float(0)

\* get_ngram_prob; on a context of context_counts no lookup below inserts a key,
\* since train gives ngram_counts and context_counts the same keys
get_ngram_prob(obj, ngram) ==
    LET context == DropLast(ngram)
        word    == ngram[Len(ngram)]
    IN  IF context \notin DOMAIN obj.context_counts
        THEN Outcome(obj, UniformProb(obj))
        ELSE LET obj1    == [obj EXCEPT !.ngram_counts = DefaultDictTouch(@, context)]
                 count   == CounterGet(obj1.ngram_counts[context], word)
                 cc      == obj1.context_counts[context]
                 backoff == get_context_prob(obj1, context, word)
             IN  IF backoff.exc # "" THEN Outcome(obj1, backoff)
                 ELSE Outcome(obj1,
                              Returns(AddBackoff(DiscountedProb(count, obj1.discount, cc),
                                                 obj1.discount,
                                                 Cardinality(DOMAIN obj1.ngram_counts[context]),
                                                 cc, backoff.val)))

---------------------------------------------------------------------------
(* Inputs *)

SeqsUpTo(S, k) == UNION {[1..m -> S] : m \in 0..k}

\* " ".join(tokens)
RECURSIVE Join(_)
Join(tokens) ==
    IF tokens = <<>> THEN <<>>
    ELSE IF Len(tokens) = 1 THEN tokens[1]
    ELSE tokens[1] \o <<" ">> \o Join(Tail(tokens))

\* the same tokens with leading, doubled and trailing whitespace
RECURSIVE JoinWide(_)
JoinWide(tokens) ==
    IF tokens = <<>> THEN <<"\n">>
    ELSE <<" ">> \o tokens[1] \o <<"\t">> \o JoinWide(Tail(tokens))

Tokens == {<<"a">>, <<"b">>}

TokenSeqs == SeqsUpTo(Tokens, MaxLen)

Sentences == {Join(ts) : ts \in TokenSeqs}

WideSentences == {JoinWide(ts) : ts \in TokenSeqs}

Corpora == SeqsUpTo(Sentences, MaxSentences) \cup {<<s>> : s \in WideSentences}

Orders == 0..MaxN

DefaultDescuento == Frac(3, 4)

Discounts == {Frac(1, 4), DefaultDescuento, Frac(3, 2)}

ValidDiscount(d) == RLess(Int2Float(0), d) /\ RLess(d, Int2Float(1))

\* the corpus, the instance and the queries of the script, lines 195-213
DemoCorpus ==
    << Join(<< <<"el">>, <<"gato">>, <<"come">>, <<"pescado">> >>),
       Join(<< <<"el">>, <<"perro">>, <<"come">>, <<"carne">> >>),
       Join(<< <<"el">>, <<"gato">>, <<"duerme">> >>),
       Join(<< <<"el">>, <<"perro">>, <<"ladra">> >>),
       Join(<< <<"el">>, <<"perro">>, <<"come">>, <<"pescado">> >>) >>

DemoArgs == [corpus |-> DemoCorpus, n |-> 2, descuento |-> DefaultDescuento]

DemoNgrams ==
    { << <<"el">>, <<"gato">> >>,
      << <<"gato">>, <<"come">> >>,
      << <<"come">>, <<"carne">> >>,
      << <<"perro">>, <<"pescado">> >> }

DemoOracion == Join(<< <<"el">>, <<"perro">>, <<"come">>, <<"carne">> >>)

\* the tuples of length 1..n a query is made with
QueryNgrams(n) ==
    UNION {[1..k -> Tokens] : k \in 1..n} \cup {g \in DemoNgrams : Len(g) <= n}

\* the sentences scored: single-spaced ones, some with irregular whitespace, the script's
QueryOraciones ==
    Sentences \cup {JoinWide(ts) : ts \in SeqsUpTo({<<"a">>}, MaxLen)} \cup {DemoOracion}

LMWords == Tokens

LMCorpora == SeqsUpTo(SeqsUpTo(LMWords, LMMaxLen), MaxSentences)

LMOrders == 1..LMMaxN

LMQueries(n) == [1..n -> LMWords \cup {BOS, EOS}]

---------------------------------------------------------------------------
(* The state machines *)

NoArgs == [corpus |-> <<>>, n |-> 0, descuento |-> Int2Float(0)]

NoInstance == NewInstance(0, Int2Float(0))

NoCall == [op |-> "", ngram |-> <<>>, oracion |-> <<>>]

NoResult == Returns(Int2Float(0))

NoLM == KneserNeyLM(0, Int2Float(0))

knVars == <<pc, args, self, call, result>>

lmVars == <<lmPc, lmTrained, lm, lmCall, lmResult>>

NoKN ==
    /\ pc = "off" /\ args = NoArgs /\ self = NoInstance
    /\ call = NoCall /\ result = NoResult

NoKneserNeyLM ==
    /\ lmPc = "off" /\ lmTrained = FALSE /\ lm = NoLM
    /\ lmCall = <<>> /\ lmResult = NoResult

\* the caller has chosen the constructor's arguments
Init ==
    /\ pc = "new"
    /\ args \in [corpus : Corpora, n : Orders, descuento : Discounts] \cup {DemoArgs}
    /\ self = NoInstance
    /\ call = NoCall
    /\ result = NoResult
    /\ NoKneserNeyLM

\* kneserNey = KneserNeySmoothing(corpus, n, descuento)
Construct ==
    /\ pc = "new"
    /\ self' = KneserNeySmoothing(args.corpus, args.n, args.descuento)
    /\ pc' = "built"
    /\ args' = NoArgs
    /\ UNCHANGED <<call, result, lmVars>>

\* kneserNey.obtenerProbabilidad(ngram)
ObtenerProbabilidad ==
    /\ pc = "built"
    /\ \E ngram \in QueryNgrams(self.n) :
          LET r == obtenerProbabilidad(self, ngram)
          IN  /\ self' = r.self
              /\ result' = [exc |-> r.exc, val |-> r.val]
              /\ call' = [op |-> "obtenerProbabilidad", ngram |-> ngram, oracion |-> <<>>]
    /\ pc' = "returned"
    /\ UNCHANGED <<args, lmVars>>

\* kneserNey.generarProbabilidadOracion(oracion)
GenerarProbabilidadOracion ==
    /\ pc = "built"
    /\ \E oracion \in QueryOraciones :
          LET r == generarProbabilidadOracion(self, oracion)
          IN  /\ self' = r.self
              /\ result' = [exc |-> r.exc, val |-> r.val]
              /\ call' = [op |-> "generarProbabilidadOracion", ngram |-> <<>>,
                          oracion |-> oracion]
    /\ pc' = "returned"
    /\ UNCHANGED <<args, lmVars>>

\* the caller has used the value (the script prints it) and goes on to its next call
Continue ==
    /\ pc = "returned"
    /\ pc' = "built"
    /\ call' = NoCall
    /\ result' = NoResult
    /\ UNCHANGED <<args, self, lmVars>>

Next == Construct \/ ObtenerProbabilidad \/ GenerarProbabilidadOracion \/ Continue

Spec == Init /\ [][Next]_vars

\* model = KneserNeyLM(n, discount)
InitLM ==
    /\ NoKN
    /\ lmPc = "idle"
    /\ lmTrained = FALSE
    /\ lm \in {KneserNeyLM(n, d) : n \in LMOrders, d \in Discounts}
    /\ lmCall = <<>>
    /\ lmResult = NoResult

\* model.train(corpus).  train only adds to the tables, sentence by sentence, so
\* training on c1 and then on c2 leaves what one call on c1 + c2 leaves: one call
\* with every corpus stands for every sequence of calls
Train ==
    /\ lmPc = "idle"
    /\ ~lmTrained
    /\ \E corpus \in LMCorpora : lm' = train(lm, corpus)
    /\ lmTrained' = TRUE
    /\ UNCHANGED <<lmPc, lmCall, lmResult, knVars>>

\* model.get_ngram_prob(ngram)
GetNgramProb ==
    /\ lmPc = "idle"
    /\ \E ngram \in LMQueries(lm.n) :
          LET r == get_ngram_prob(lm, ngram)
          IN  /\ lm' = r.self
              /\ lmResult' = [exc |-> r.exc, val |-> r.val]
              /\ lmCall' = ngram
    /\ lmPc' = "returned"
    /\ UNCHANGED <<lmTrained, knVars>>

\* the caller has used the value (main prints it) and goes on to its next call
ContinueLM ==
    /\ lmPc = "returned"
    /\ lmPc' = "idle"
    /\ lmCall' = <<>>
    /\ lmResult' = NoResult
    /\ UNCHANGED <<lmTrained, lm, knVars>>

NextLM == Train \/ GetNgramProb \/ ContinueLM

SpecLM == InitLM /\ [][NextLM]_vars

---------------------------------------------------------------------------
(* Properties of KneserNeySmoothing *)

IsProbability(r) ==
    /\ r.exc = ""
    /\ RLeq(Int2Float(0), r.val)
    /\ RLeq(r.val, Int2Float(1))

AskedProbability ==
    /\ pc = "returned"
    /\ call.op = "obtenerProbabilidad"
    /\ Len(call.ngram) \in 1..self.n

\* C1: on an engine built with 0 < descuento < 1 from a corpus with at least one
\* n-gram, obtenerProbabilidad of a tuple of length 1..n returns p with 0 <= p <= 1.
C1_ProbabilityInUnitInterval ==
    (AskedProbability /\ ValidDiscount(self.descuento) /\ self.totalNgrams > 0)
        => IsProbability(result)

\* C2: construction from a corpus without n-grams of order n fails, so no
\* constructed engine has totalNgrams = 0.
C2_NoEngineWithoutNgrams ==
    (pc # "new" /\ self.n >= 1 /\ ValidDiscount(self.descuento))
        => self.totalNgrams > 0

\* C3: on a constructed engine obtenerProbabilidad of a tuple of length 1..n,
\* seen or unseen, returns a number and never ends in an exception.
C3_QueryNeverRaises ==
    AskedProbability => result.exc = ""

\* C4: for n >= 2, a tuple of length n that is no n-gram of the corpus but whose
\* tokens all occur in the corpus gets a probability strictly greater than 0.
C4_UnseenNgramPositive ==
    (/\ AskedProbability
     /\ self.n >= 2
     /\ Len(call.ngram) = self.n
     /\ ValidDiscount(self.descuento)
     /\ self.totalNgrams > 0
     /\ call.ngram \notin DOMAIN self.ngramCounts[self.n]
     /\ \A i \in 1..Len(call.ngram) : call.ngram[i] \in DOMAIN self.unigramCounts)
        => (result.exc = "" /\ RLess(Int2Float(0), result.val))

\* C5: construction with n < 1 or a discount outside (0, 1) fails and produces no
\* engine: every constructed engine has n >= 1 and 0 < descuento < 1.
C5_NoEngineWithInvalidConfiguration ==
    pc # "new" => (self.n >= 1 /\ ValidDiscount(self.descuento))

DemoInstance == KneserNeySmoothing(DemoCorpus, 2, DefaultDescuento)

ElGato == << <<"el">>, <<"gato">> >>

AskedElGato ==
    /\ pc = "returned"
    /\ self = DemoInstance
    /\ call.op = "obtenerProbabilidad"
    /\ call.ngram = ElGato

\* C6: in the script's scenario (order 2, discount 3/4, its five sentences),
\* obtenerProbabilidad(("el","gato")) is exactly 2/3, which is
\* max(2 - 3/4, 0)/2 + (3/4)*(2/18)/2 from context count 2, bigram count 2 and
\* unigram probability 2/18.
C6_DemoElGatoIsTwoThirds ==
    AskedElGato =>
        /\ result = Returns(Frac(2, 3))
        /\ CounterGet(self.cuentasContexto, << <<"el">> >>) = 2
        /\ CounterGet(self.ngramCounts[2], ElGato) = 2
        /\ obtenerProbabilidad(self, << <<"gato">> >>).val = Frac(2, 18)
        /\ result.val = RAdd(RDivInt(RMax0(RSub(Int2Float(2), Frac(3, 4))), 2),
                             RDivInt(RMul(Frac(3, 4), Frac(2, 18)), 2))

C6_Witness ==
    AskedElGato /\ result.exc = "" /\ result.val = Frac(2, 3)

\* the contiguous windows of length n >= 1 of a token list, in order
Windows(tokens, n) ==
    [i \in 1..(Len(tokens) - n + 1) |-> SubSeq(tokens, i, i + n - 1)]

\* the product, seeded at 1, of obtenerProbabilidad over windows i..; the first
\* window whose probability raises decides the outcome
RECURSIVE ProductFrom(_, _, _)
ProductFrom(obj, windows, i) ==
    IF i > Len(windows) THEN Returns(Int2Float(1))
    ELSE LET p    == obtenerProbabilidad(obj, windows[i])
             rest == ProductFrom(obj, windows, i + 1)
         IN  IF p.exc # "" THEN Raises(p.exc)
             ELSE IF rest.exc # "" THEN rest
             ELSE Returns(RMul(p.val, rest.val))

AskedOracion ==
    /\ pc = "returned"
    /\ call.op = "generarProbabilidadOracion"
    /\ self.n >= 1

\* C7: generarProbabilidadOracion(s) is the product, seeded at 1, of
\* obtenerProbabilidad over the length-n windows of the whitespace-split tokens of s,
\* in order and with multiplicity; a sentence of fewer than n tokens gives exactly 1.
C7_OracionIsProductOfWindows ==
    AskedOracion =>
        /\ result = ProductFrom(self, Windows(split(call.oracion), self.n), 1)
        /\ Len(split(call.oracion)) < self.n => result = Returns(Int2Float(1))

C7_Witness ==
    /\ AskedOracion
    /\ Len(split(call.oracion)) > self.n
    /\ result.exc = ""
    /\ RLess(Int2Float(0), result.val)
    /\ RLess(result.val, Int2Float(1))

\* C8: after construction no query changes unigramCounts, ngramCounts,
\* cuentasContinuacion, cuentasContexto, totalNgrams or totalUnigrams, nor the
\* key set of any of them: no lookup of a missing key inserts an entry.
C8_QueriesLeaveTablesUnchanged ==
    [][pc # "new" =>
          /\ self'.unigramCounts = self.unigramCounts
          /\ self'.ngramCounts = self.ngramCounts
          /\ DOMAIN self'.ngramCounts = DOMAIN self.ngramCounts
          /\ \A k \in DOMAIN self.ngramCounts :
                 DOMAIN self'.ngramCounts[k] = DOMAIN self.ngramCounts[k]
          /\ self'.cuentasContinuacion = self.cuentasContinuacion
          /\ self'.cuentasContexto = self.cuentasContexto
          /\ DOMAIN self'.unigramCounts = DOMAIN self.unigramCounts
          /\ DOMAIN self'.cuentasContinuacion = DOMAIN self.cuentasContinuacion
          /\ DOMAIN self'.cuentasContexto = DOMAIN self.cuentasContexto
          /\ self'.totalNgrams = self.totalNgrams
          /\ self'.totalUnigrams = self.totalUnigrams]_vars

\* a query of an unseen n-gram after a seen prefix (line 142 looks up a missing
\* key), made on an engine whose corpus lacks a token
C8_Witness ==
    /\ AskedProbability
    /\ self.n >= 2
    /\ Len(call.ngram) = self.n
    /\ CounterGet(self.cuentasContexto, DropLast(call.ngram)) > 0
    /\ call.ngram \notin DOMAIN self.ngramCounts[self.n]
    /\ call.ngram[self.n] \notin DOMAIN self.unigramCounts
    /\ result.exc = ""

\* the distinct n-grams (n >= 1) of a corpus: the windows of its sentences
CorpusNgramTypes(corpus, n) ==
    UNION { {SubSeq(split(corpus[s]), i, i + n - 1) :
                 i \in 1..(Len(split(corpus[s])) - n + 1)} : s \in 1..Len(corpus) }

RECURSIVE SumValues(_, _)
SumValues(counter, keys) ==
    IF keys = {} THEN 0
    ELSE LET k == CHOOSE x \in keys : TRUE
         IN  counter[k] + SumValues(counter, keys \ {k})

---------------------------------------------------------------------------
(* Properties of KneserNeyLM *)

RECURSIVE SumProbs(_, _, _)
SumProbs(obj, context, words) ==
    IF words = {} THEN Int2Float(0)
    ELSE LET w == CHOOSE x \in words : TRUE
         IN  RAdd(get_ngram_prob(obj, Append(context, w)).val,
                  SumProbs(obj, context, words \ {w}))

=============================================================================
